---------------------------- MODULE Spec2Model ----------------------------
(***************************************************************************)
(* Byte-level model of the boundary-tag allocator (init_myalloc, myalloc,  *)
(* myfree, myrealloc and their helpers).  The memory pool is an array of   *)
(* bytes; int tags are 4-byte little-endian two's complement words and the *)
(* free-list links are 8-byte little-endian pointers stored inside the     *)
(* pool, exactly where struct node places them (LP64: space at offset 0,   *)
(* 4 bytes of padding, next at offset 8, prev at offset 16).               *)
(***************************************************************************)
EXTENDS Integers, Sequences, FiniteSets, TLC

\* ------------------------------------------------------------------ sizes
\* Size of the memory pool (simpletest.c sets 40000; the model uses a small pool).
MEMORY_SIZE == 120

\* Upper bound on the number of allocator calls in one run of the driver.
MaxOps == 5

\* sizeof(int): the type of node.space and of the footer tag.
SizeofInt == 4

\* sizeof(node *): the type of node.next and node.prev.
SizeofPtr == 8

\* sizeof(node) on LP64.
SizeofNode == 24

\* offsetof(node, next) and offsetof(node, prev).
OffNext == 8
OffPrev == 16

\* The address malloc() returned for the pool (the value of the global mem).
mem == 4096

NULL == 0

\* A pointer value that is not an address of the model (bytes that no store
\* of the allocator produced, read as a pointer).
WildPtr == -1

Byte == 0..255

\* One past the last byte of the pool: mem + MEMORY_SIZE.
PoolEnd == mem + MEMORY_SIZE

PoolAddrs == mem..(PoolEnd - 1)

\* Values an uninitialised byte of the malloc'ed pool, or a byte read past
\* its end, may hold.
JunkBytes == {0, 221}

\* The fill character of the driver's first allocation ('A'); each later
\* call uses the next character.
FirstFill == 65

\* Request sizes the driver passes to myalloc and myrealloc.
Sizes == {1, 20, 24, MEMORY_SIZE - 2 * SizeofInt, MEMORY_SIZE}

Abs(x) == IF x < 0 THEN -x ELSE x

Min(x, y) == IF x < y THEN x ELSE y

\* The element of a one-element set.  Written The({ e(x) : x \in {v} }), it
\* names the intermediate value v of a computation (a local of the C
\* function) once, for use in e.
The(S) == CHOOSE x \in S : TRUE

\* ------------------------------------------------- words stored in bytes
\* The four little-endian bytes of a non-negative int.
NatBytes(v) ==
  << v % 256, (v \div 256) % 256, (v \div 65536) % 256, (v \div 16777216) % 256 >>

\* Store of an int: two's complement, little-endian.
IntBytes(v) ==
  IF v >= 0 THEN NatBytes(v)
  ELSE LET nb == NatBytes(-(v + 1)) IN [k \in 1..4 |-> 255 - nb[k]]

\* Load of an int from four bytes.
BytesInt(b) ==
  IF b[4] < 128
  THEN b[1] + 256 * b[2] + 65536 * b[3] + 16777216 * b[4]
  ELSE -((255 - b[1]) + 256 * (255 - b[2]) + 65536 * (255 - b[3])
         + 16777216 * (255 - b[4])) - 1

\* Store of a pointer: eight little-endian bytes (addresses of the model fit
\* in the low word).
PtrBytes(a) == NatBytes(a) \o << 0, 0, 0, 0 >>

\* Load of a pointer from eight bytes.
BytesPtr(b) ==
  IF b[5] = 0 /\ b[6] = 0 /\ b[7] = 0 /\ b[8] = 0 /\ b[4] < 128
  THEN BytesInt(SubSeq(b, 1, 4))
  ELSE WildPtr

\* The n bytes of the pool at address a.
RdBytes(pool, a, n) ==
  The({ IF n = 4 THEN << pool[x], pool[x + 1], pool[x + 2], pool[x + 3] >>
        ELSE << pool[x], pool[x + 1], pool[x + 2], pool[x + 3],
                pool[x + 4], pool[x + 5], pool[x + 6], pool[x + 7] >> : x \in {a} })

\* The pool after storing the four bytes b at address a.
Wr4(pool, a, b) ==
  [pool EXCEPT ![a] = b[1], ![a + 1] = b[2], ![a + 2] = b[3], ![a + 3] = b[4]]

\* The pool after storing the eight bytes b at address a.
Wr8(pool, a, b) ==
  [pool EXCEPT ![a] = b[1], ![a + 1] = b[2], ![a + 2] = b[3], ![a + 3] = b[4],
               ![a + 4] = b[5], ![a + 5] = b[6], ![a + 6] = b[7], ![a + 7] = b[8]]

RdInt(pool, a) == The({ BytesInt(b) : b \in {RdBytes(pool, a, SizeofInt)} })

WrInt(pool, a, v) == The({ Wr4(pool, x[1], x[2]) : x \in {<< a, IntBytes(v) >>} })

RdPtr(pool, a) == The({ BytesPtr(b) : b \in {RdBytes(pool, a, SizeofPtr)} })

WrPtr(pool, a, p) == The({ Wr8(pool, x[1], x[2]) : x \in {<< a, PtrBytes(p) >>} })

\* The allocator's global state: the bytes of the pool and the freeList pointer.
Heap(pool, fl) == [pool |-> pool, freeList |-> fl]


\* ------------------------------------------------------------ node functions
\* addNode storing newNode, not the old first node, in newNode->next.
addNode_SelfLoop(h, newNode) ==
  LET oldFirstNode == h.freeList
      p1 == WrPtr(h.pool, newNode + OffNext, newNode)
      p2 == WrPtr(p1, newNode + OffPrev, NULL)
      p3 == IF oldFirstNode # NULL
            THEN WrPtr(p2, oldFirstNode + OffPrev, newNode)
            ELSE p2
  IN  Heap(p3, newNode)

\* addNode linking newNode behind the first node instead of in front of it.
addNode_Second(h, newNode) ==
  LET oldFirstNode == h.freeList
      second == IF oldFirstNode # NULL
                THEN RdPtr(h.pool, oldFirstNode + OffNext)
                ELSE NULL
      p1 == WrPtr(h.pool, newNode + OffNext, second)
      p2 == WrPtr(p1, newNode + OffPrev, oldFirstNode)
      p3 == IF oldFirstNode # NULL
            THEN WrPtr(p2, oldFirstNode + OffNext, newNode)
            ELSE p2
      p4 == IF second # NULL
            THEN WrPtr(p3, second + OffPrev, newNode)
            ELSE p3
  IN  Heap(p4, IF oldFirstNode # NULL THEN oldFirstNode ELSE newNode)

\* addNode: push newNode at the front of the free list.
addNode(h, newNode) ==
  LET oldFirstNode == h.freeList
      p1 == WrPtr(h.pool, newNode + OffNext, oldFirstNode)
      p2 == WrPtr(p1, newNode + OffPrev, NULL)
      p3 == IF oldFirstNode # NULL
            THEN WrPtr(p2, oldFirstNode + OffPrev, newNode)
            ELSE p2
  IN  Heap(p3, newNode)

\* removeNode without the store to nextNode->prev.
removeNode_NoBackPatch(h, badNode) ==
  LET prevNode == RdPtr(h.pool, badNode + OffPrev)
      nextNode == RdPtr(h.pool, badNode + OffNext)
      fl == IF prevNode = NULL THEN nextNode ELSE h.freeList
      p1 == IF prevNode = NULL
            THEN h.pool
            ELSE WrPtr(h.pool, prevNode + OffNext, nextNode)
  IN  Heap(p1, fl)

\* removeNode: unlink badNode, repairing the links of its list neighbours.
removeNode(h, badNode) ==
  LET prevNode == RdPtr(h.pool, badNode + OffPrev)
      nextNode == RdPtr(h.pool, badNode + OffNext)
      fl == IF prevNode = NULL THEN nextNode ELSE h.freeList
      p1 == IF prevNode = NULL
            THEN h.pool
            ELSE WrPtr(h.pool, prevNode + OffNext, nextNode)
      p2 == IF nextNode # NULL
            THEN WrPtr(p1, nextNode + OffPrev, prevNode)
            ELSE p1
  IN  Heap(p2, fl)

\* coalesce without the call of removeNode.
coalesce_KeepsNode(h, headptrA, headptrB) ==
  LET newSpace == RdInt(h.pool, headptrA) + RdInt(h.pool, headptrB)
                  + 2 * SizeofInt
      p1 == WrInt(h.pool, headptrA, newSpace)
      footptr == headptrA + newSpace + SizeofInt
      p2 == WrInt(p1, footptr, newSpace)
  IN  Heap(p2, h.freeList)

\* coalesce without the store to the merged block's footer.
coalesce_NoFooter(h, headptrA, headptrB) ==
  LET newSpace == RdInt(h.pool, headptrA) + RdInt(h.pool, headptrB)
                  + 2 * SizeofInt
      p1 == WrInt(h.pool, headptrA, newSpace)
  IN  The({ removeNode(g, headptrB) : g \in {Heap(p1, h.freeList)} })

\* coalesce unlinking headptrA, not headptrB.
coalesce_WrongNode(h, headptrA, headptrB) ==
  LET newSpace == RdInt(h.pool, headptrA) + RdInt(h.pool, headptrB)
                  + 2 * SizeofInt
      p1 == WrInt(h.pool, headptrA, newSpace)
      footptr == headptrA + newSpace + SizeofInt
      p2 == WrInt(p1, footptr, newSpace)
  IN  The({ removeNode(g, headptrA) : g \in {Heap(p2, h.freeList)} })

\* coalesce adding the two payloads without the two tags between them.
coalesce_NoTagBytes(h, headptrA, headptrB) ==
  LET newSpace == RdInt(h.pool, headptrA) + RdInt(h.pool, headptrB)
      p1 == WrInt(h.pool, headptrA, newSpace)
      footptr == headptrA + newSpace + SizeofInt
      p2 == WrInt(p1, footptr, newSpace)
  IN  The({ removeNode(g, headptrB) : g \in {Heap(p2, h.freeList)} })

\* coalesce: merge the free block at headptrB into the free block at
\* headptrA that physically precedes it.
coalesce(h, headptrA, headptrB) ==
  LET newSpace == RdInt(h.pool, headptrA) + RdInt(h.pool, headptrB)
                  + 2 * SizeofInt
      p1 == WrInt(h.pool, headptrA, newSpace)
      footptr == headptrA + newSpace + SizeofInt
      p2 == WrInt(p1, footptr, newSpace)
  IN  The({ removeNode(g, headptrB) : g \in {Heap(p2, h.freeList)} })

\* ---------------------------------------------------------- helper functions
\* The address splitBlock returns: the header of the second block.
splitNewHead(headptr, size) == headptr + SizeofInt + size + SizeofInt

\* splitBlock counting one int tag, not two, between the two blocks.
splitBlock_LostTag(h, headptr, size) ==
  LET space == RdInt(h.pool, headptr)
      footptr == headptr + SizeofInt + space
      newFootptr == headptr + SizeofInt + size
      newHeadptr == newFootptr + SizeofInt
      newSpace == space - size - SizeofInt
      p1 == WrInt(h.pool, headptr, size)
      p2 == WrInt(p1, newFootptr, size)
      p3 == WrInt(p2, newHeadptr, newSpace)
      p4 == WrInt(p3, footptr, newSpace)
  IN  Heap(p4, h.freeList)

\* splitBlock: cut the free block at headptr into a block of payload size
\* and a block holding the rest; the free list is not touched.
splitBlock(h, headptr, size) ==
  LET space == RdInt(h.pool, headptr)
      footptr == headptr + SizeofInt + space
      newFootptr == headptr + SizeofInt + size
      newHeadptr == newFootptr + SizeofInt
      newSpace == space - size - 2 * SizeofInt
      p1 == WrInt(h.pool, headptr, size)
      p2 == WrInt(p1, newFootptr, size)
      p3 == WrInt(p2, newHeadptr, newSpace)
      p4 == WrInt(p3, footptr, newSpace)
  IN  Heap(p4, h.freeList)

\* The loop of findHead keeping the first block that fits (first fit).
RECURSIVE findLoop_FirstFit(_, _, _, _, _, _)
findLoop_FirstFit(pool, headptr, size, resultptr, lowest, fuel) ==
  IF headptr = NULL THEN resultptr
  ELSE IF fuel = 0 THEN WildPtr
  ELSE LET space == RdInt(pool, headptr)
           next == RdPtr(pool, headptr + OffNext)
       IN  IF space = size THEN headptr
           ELSE IF space > size /\ resultptr = NULL
                THEN findLoop_FirstFit(pool, next, size, headptr, space, fuel - 1)
                ELSE findLoop_FirstFit(pool, next, size, resultptr, lowest, fuel - 1)

\* The loop of findHead without the perfect-fit test: only space > size fits.
RECURSIVE findLoop_NoPerfectFit(_, _, _, _, _, _)
findLoop_NoPerfectFit(pool, headptr, size, resultptr, lowest, fuel) ==
  IF headptr = NULL THEN resultptr
  ELSE IF fuel = 0 THEN WildPtr
  ELSE LET space == RdInt(pool, headptr)
           next == RdPtr(pool, headptr + OffNext)
       IN  IF space > size /\ (resultptr = NULL \/ space < lowest)
           THEN findLoop_NoPerfectFit(pool, next, size, headptr, space, fuel - 1)
           ELSE findLoop_NoPerfectFit(pool, next, size, resultptr, lowest, fuel - 1)

\* The loop of findHead going on after a perfect fit, so that the last
\* perfect fit of the list is the one returned.
RECURSIVE findLoop_LastPerfectFit(_, _, _, _, _, _)
findLoop_LastPerfectFit(pool, headptr, size, resultptr, lowest, fuel) ==
  IF headptr = NULL THEN resultptr
  ELSE IF fuel = 0 THEN WildPtr
  ELSE LET space == RdInt(pool, headptr)
           next == RdPtr(pool, headptr + OffNext)
       IN  IF space = size
           THEN findLoop_LastPerfectFit(pool, next, size, headptr, space, fuel - 1)
           ELSE IF space > size /\ (resultptr = NULL \/ space < lowest)
                THEN findLoop_LastPerfectFit(pool, next, size, headptr, space, fuel - 1)
                ELSE findLoop_LastPerfectFit(pool, next, size, resultptr, lowest, fuel - 1)

\* The loop of findHead from node headptr on; resultptr and lowest are the
\* loop's locals.  fuel counts the iterations left before the walk is known
\* to be circling (the C loop would then never end): WildPtr.
RECURSIVE findLoop(_, _, _, _, _, _)
findLoop(pool, headptr, size, resultptr, lowest, fuel) ==
  IF headptr = NULL THEN resultptr
  ELSE IF fuel = 0 THEN WildPtr
  ELSE LET space == RdInt(pool, headptr)
           next == RdPtr(pool, headptr + OffNext)
       IN  IF space = size THEN headptr
           ELSE IF space > size /\ (resultptr = NULL \/ space < lowest)
                THEN findLoop(pool, next, size, headptr, space, fuel - 1)
                ELSE findLoop(pool, next, size, resultptr, lowest, fuel - 1)

\* findHead: best-fit scan of the free list.
findHead(h, size) == findLoop(h.pool, h.freeList, size, NULL, 0, MEMORY_SIZE)

\* The loop of checkMem from block address dataptr on, total being
\* allocMem + freeMem so far.  The C loop ends only when dataptr equals
\* mem + MEMORY_SIZE; stepping past it is a walk that never ends: -1.
RECURSIVE checkLoop(_, _, _)
checkLoop(pool, dataptr, total) ==
  IF dataptr = PoolEnd THEN total
  ELSE IF dataptr + SizeofInt > PoolEnd THEN -1
  ELSE LET blockSize == Abs(RdInt(pool, dataptr)) + 2 * SizeofInt
       IN  checkLoop(pool, dataptr + blockSize, total + blockSize)

\* checkMem: the sum of the footprints of all blocks.
checkMem(h) == checkLoop(h.pool, mem, 0)

\* isValid refusing a block whose footer is the last word of the pool.
isValid_RejectsLastBlock(h, oldptr) ==
  IF mem + SizeofInt > oldptr \/ PoolEnd - SizeofInt < oldptr THEN FALSE
  ELSE LET space == -RdInt(h.pool, oldptr - SizeofInt)
       IN  IF space < 0 \/ oldptr + space >= PoolEnd - SizeofInt THEN FALSE
           ELSE IF RdInt(h.pool, oldptr + space) # -space THEN FALSE
           ELSE TRUE

\* isValid: the validity screen myfree applies to its argument.
isValid(h, oldptr) ==
  IF mem + SizeofInt > oldptr \/ PoolEnd - SizeofInt < oldptr THEN FALSE
  ELSE LET space == -RdInt(h.pool, oldptr - SizeofInt)
       IN  IF space < 0 \/ oldptr + space > PoolEnd - SizeofInt THEN FALSE
           ELSE IF RdInt(h.pool, oldptr + space) # -space THEN FALSE
           ELSE TRUE

\* ------------------------------------------------------ allocator functions
\* The result of an allocator call: the heap it leaves, the pointer it
\* returns, and whether the process was stopped (abort(), a failed assert,
\* or a loop that never ends).
Result(h, ret, abort) == [heap |-> h, ret |-> ret, abort |-> abort]

\* a > b after both are converted to size_t (a negative int becomes a value
\* above every non-negative one).
UGt(a, b) == (a < 0 /\ b >= 0) \/ ((a < 0) = (b < 0) /\ a > b)

\* MAX(size, sizeof(node) - sizeof(int)), compared as size_t and stored
\* back into the int size.
MAX(size, c) == IF UGt(size, c) THEN size ELSE c

\* init_myalloc without the store to *footptr.
init_myalloc_NoFooter(raw) ==
  LET headptr == mem
      space == MEMORY_SIZE - 2 * SizeofInt
  IN  addNode(Heap(WrInt(raw, headptr, space), NULL), headptr)

\* init_myalloc: the whole pool becomes one free block, the only node of
\* the free list.  raw holds the bytes malloc handed out.
init_myalloc(raw) ==
  LET headptr == mem
      space == MEMORY_SIZE - 2 * SizeofInt
      footptr == headptr + SizeofInt + space
  IN  The({ Heap(WrInt(h1.pool, footptr, space), h1.freeList) :
            h1 \in {addNode(Heap(WrInt(raw, headptr, space), NULL), headptr)} })

\* myalloc after findHead, splitting the block sizeof(int) bytes short.
allocBlock_ShortSplit(h, headptr, size) ==
  LET space == RdInt(h.pool, headptr)
      sz == MAX(size, SizeofNode - SizeofInt)
      resultptr == headptr + SizeofInt
  IN  The({ The({ The({ Result(h3, resultptr, checkMem(h3) # MEMORY_SIZE) :
                        h3 \in { LET space2 == RdInt(h2.pool, headptr)
                                     footptr == resultptr + space2
                                     p1 == WrInt(h2.pool, headptr, -space2)
                                 IN  Heap(WrInt(p1, footptr, -space2), h2.freeList) } }) :
                  h2 \in { removeNode(h1, headptr) } }) :
            h1 \in { IF UGt(space, sz + SizeofInt + SizeofNode)
                     THEN The({ addNode(hs, splitNewHead(headptr, sz - SizeofInt)) :
                                hs \in {splitBlock(h, headptr, sz - SizeofInt)} })
                     ELSE h } })

\* myalloc after findHead, splitting also a block of exactly
\* size + sizeof(int) + sizeof(node) bytes of payload.
allocBlock_SplitAtThreshold(h, headptr, size) ==
  LET space == RdInt(h.pool, headptr)
      sz == MAX(size, SizeofNode - SizeofInt)
      resultptr == headptr + SizeofInt
  IN  The({ The({ The({ Result(h3, resultptr, checkMem(h3) # MEMORY_SIZE) :
                        h3 \in { LET space2 == RdInt(h2.pool, headptr)
                                     footptr == resultptr + space2
                                     p1 == WrInt(h2.pool, headptr, -space2)
                                 IN  Heap(WrInt(p1, footptr, -space2), h2.freeList) } }) :
                  h2 \in { removeNode(h1, headptr) } }) :
            h1 \in { IF UGt(space + 1, sz + SizeofInt + SizeofNode)
                     THEN The({ addNode(hs, splitNewHead(headptr, sz)) :
                                hs \in {splitBlock(h, headptr, sz)} })
                     ELSE h } })

\* myalloc after findHead, without size = MAX(size, sizeof(node) - sizeof(int)).
allocBlock_NoInflate(h, headptr, size) ==
  LET space == RdInt(h.pool, headptr)
      sz == size
      resultptr == headptr + SizeofInt
  IN  The({ The({ The({ Result(h3, resultptr, checkMem(h3) # MEMORY_SIZE) :
                        h3 \in { LET space2 == RdInt(h2.pool, headptr)
                                     footptr == resultptr + space2
                                     p1 == WrInt(h2.pool, headptr, -space2)
                                 IN  Heap(WrInt(p1, footptr, -space2), h2.freeList) } }) :
                  h2 \in { removeNode(h1, headptr) } }) :
            h1 \in { IF UGt(space, sz + SizeofInt + SizeofNode)
                     THEN The({ addNode(hs, splitNewHead(headptr, sz)) :
                                hs \in {splitBlock(h, headptr, sz)} })
                     ELSE h } })

\* myalloc after findHead returned the block at headptr: split it when it
\* is large enough, unlink it, tag it as allocated.
allocBlock(h, headptr, size) ==
  LET space == RdInt(h.pool, headptr)
      sz == MAX(size, SizeofNode - SizeofInt)
      resultptr == headptr + SizeofInt
  IN  The({ The({ The({ Result(h3, resultptr, checkMem(h3) # MEMORY_SIZE) :
                        h3 \in { LET space2 == RdInt(h2.pool, headptr)
                                     footptr == resultptr + space2
                                     p1 == WrInt(h2.pool, headptr, -space2)
                                 IN  Heap(WrInt(p1, footptr, -space2), h2.freeList) } }) :
                  h2 \in { removeNode(h1, headptr) } }) :
            h1 \in { IF UGt(space, sz + SizeofInt + SizeofNode)
                     THEN The({ addNode(hs, splitNewHead(headptr, sz)) :
                                hs \in {splitBlock(h, headptr, sz)} })
                     ELSE h } })

\* myalloc: best-fit block, split when large enough, unlinked and tagged
\* as allocated; NULL when findHead finds none.
myalloc(h, size) ==
  The({ IF headptr = NULL THEN Result(h, NULL, FALSE)
        ELSE IF headptr = WildPtr THEN Result(h, NULL, TRUE)
        ELSE allocBlock(h, headptr, size) :
        headptr \in {findHead(h, size)} })

\* The merges of myfree without the forward one.
freeMerge_NoForward(h1, dataptr, space) ==
  LET prevSpace == IF dataptr # mem THEN RdInt(h1.pool, dataptr - SizeofInt) ELSE 0
      back == dataptr # mem /\ prevSpace > 0
      prevHeadptr == dataptr - prevSpace - 2 * SizeofInt
  IN  IF back THEN coalesce(h1, prevHeadptr, dataptr) ELSE h1

\* The merges of myfree without the backward one.
freeMerge_NoBackward(h1, dataptr, space) ==
  LET endptr == dataptr + space + 2 * SizeofInt
  IN  IF endptr # PoolEnd /\ RdInt(h1.pool, endptr) > 0
      THEN coalesce(h1, dataptr, endptr)
      ELSE h1

\* The merges of myfree with the backward-merged block unlinked and pushed
\* on the free list again.
freeMerge_ReinsertsMerged(h1, dataptr, space) ==
  LET prevSpace == IF dataptr # mem THEN RdInt(h1.pool, dataptr - SizeofInt) ELSE 0
      back == dataptr # mem /\ prevSpace > 0
      prevHeadptr == dataptr - prevSpace - 2 * SizeofInt
      headptr2 == IF back THEN prevHeadptr ELSE dataptr
  IN  The({ LET space2 == IF back THEN RdInt(h2.pool, prevHeadptr) ELSE space
                endptr == headptr2 + space2 + 2 * SizeofInt
            IN  IF endptr # PoolEnd /\ RdInt(h2.pool, endptr) > 0
                THEN coalesce(h2, headptr2, endptr)
                ELSE h2 :
            h2 \in { IF back
                     THEN addNode(removeNode(coalesce(h1, prevHeadptr, dataptr),
                                             prevHeadptr), prevHeadptr)
                     ELSE h1 } })

\* The two merges of myfree, applied to the heap h1 in which the block at
\* dataptr (payload space) is already tagged free and on the free list.
freeMerge(h1, dataptr, space) ==
  LET prevSpace == IF dataptr # mem THEN RdInt(h1.pool, dataptr - SizeofInt) ELSE 0
      back == dataptr # mem /\ prevSpace > 0
      prevHeadptr == dataptr - prevSpace - 2 * SizeofInt
      headptr2 == IF back THEN prevHeadptr ELSE dataptr
  IN  The({ LET space2 == IF back THEN RdInt(h2.pool, prevHeadptr) ELSE space
                endptr == headptr2 + space2 + 2 * SizeofInt
            IN  IF endptr # PoolEnd /\ RdInt(h2.pool, endptr) > 0
                THEN coalesce(h2, headptr2, endptr)
                ELSE h2 :
            h2 \in { IF back THEN coalesce(h1, prevHeadptr, dataptr) ELSE h1 } })

\* myfree without the two stores that make the tags positive.
myfree_NoRetag(h, oldptr) ==
  IF ~isValid(h, oldptr) THEN Result(h, NULL, TRUE)
  ELSE
    LET dataptr == oldptr - SizeofInt
        space == -RdInt(h.pool, dataptr)
    IN  The({ The({ Result(h3, NULL, checkMem(h3) # MEMORY_SIZE) :
                    h3 \in {freeMerge(h1, dataptr, space)} }) :
              h1 \in {addNode(Heap(h.pool, h.freeList), dataptr)} })

\* myfree: tag the block free, push it on the free list, then merge it with
\* a free physical predecessor and a free physical successor.
myfree(h, oldptr) ==
  IF ~isValid(h, oldptr) THEN Result(h, NULL, TRUE)
  ELSE
    LET dataptr == oldptr - SizeofInt
        space == -RdInt(h.pool, dataptr)
        footptr == oldptr + space
        p1 == WrInt(h.pool, dataptr, space)
        p2 == WrInt(p1, footptr, space)
    IN  The({ The({ Result(h3, NULL, checkMem(h3) # MEMORY_SIZE) :
                    h3 \in {freeMerge(h1, dataptr, space)} }) :
              h1 \in {addNode(Heap(p2, h.freeList), dataptr)} })

\* The byte loop of myrealloc, for (i = start; i < lim; i++)
\* newptr[i] = oldptr[i], as the map it computes.  Iteration i reads address
\* oldptr + i; when the destination lies d > 0 bytes above the source, that
\* address was already stored to by iteration i - d (if i - d >= start), so
\* the byte read is the one iteration i - d read, and so on down to the
\* first iteration of that chain.  A source byte past the end of the pool
\* has the value junk.
copyLoop(p, newptr, oldptr, start, lim, junk) ==
  LET d == newptr - oldptr
      origin(i) == IF d > 0 THEN i - d * ((i - start) \div d) ELSE i
      src(i) == IF oldptr + origin(i) \in PoolAddrs
                THEN p[oldptr + origin(i)]
                ELSE junk
  IN  [x \in DOMAIN p |->
         IF x >= newptr + start /\ x < newptr + lim THEN src(x - newptr) ELSE p[x]]

\* The rollback of myrealloc after myalloc returned NULL: undo the merges
\* of myfree and take the old block off the free list.
reallocUndo(h, oldHeadptr, oldSpace, prevHeadptr, prevSpace, nextHeadptr) ==
  IF prevHeadptr # NULL /\ nextHeadptr # NULL
  THEN The({ The({ addNode(h2, nextHeadptr) :
                   h2 \in {splitBlock(h1, oldHeadptr, oldSpace)} }) :
             h1 \in {splitBlock(h, prevHeadptr, prevSpace)} })
  ELSE IF prevHeadptr # NULL
  THEN splitBlock(h, prevHeadptr, prevSpace)
  ELSE IF nextHeadptr # NULL
  THEN The({ The({ removeNode(h2, oldHeadptr) :
                   h2 \in {addNode(h1, nextHeadptr)} }) :
             h1 \in {splitBlock(h, oldHeadptr, oldSpace)} })
  ELSE removeNode(h, oldHeadptr)

\* The end of myrealloc's failure path without re-tagging the old header.
reallocRestore_NoTag(u, oldDataptr, oldSpace, tempA, tempB) ==
  LET oldFootptr == oldDataptr + SizeofInt + oldSpace
      q2 == Wr8(u.pool, oldDataptr + OffNext, tempA)
      q3 == Wr8(q2, oldDataptr + OffPrev, tempB)
      q4 == WrInt(q3, oldFootptr, -oldSpace)
  IN  Heap(q4, u.freeList)

\* The end of myrealloc's failure path without oldHeadptr->prev = tempB.
reallocRestore_NoPrev(u, oldDataptr, oldSpace, tempA, tempB) ==
  LET oldFootptr == oldDataptr + SizeofInt + oldSpace
      q1 == WrInt(u.pool, oldDataptr, -oldSpace)
      q2 == Wr8(q1, oldDataptr + OffNext, tempA)
      q4 == WrInt(q2, oldFootptr, -oldSpace)
  IN  Heap(q4, u.freeList)

\* The end of myrealloc's failure path: tag the old block allocated again
\* and put back the bytes saved in tempA and tempB.
reallocRestore(u, oldDataptr, oldSpace, tempA, tempB) ==
  LET oldFootptr == oldDataptr + SizeofInt + oldSpace
      q1 == WrInt(u.pool, oldDataptr, -oldSpace)
      q2 == Wr8(q1, oldDataptr + OffNext, tempA)
      q3 == Wr8(q2, oldDataptr + OffPrev, tempB)
      q4 == WrInt(q3, oldFootptr, -oldSpace)
  IN  Heap(q4, u.freeList)

\* myrealloc's success path with the byte loop running three ints past the
\* new payload.
reallocCopy_Overrun(h, newptr, oldptr, tempA, tempB, size, junk) ==
  LET newDataptr == newptr - SizeofInt
      nSpace == -RdInt(h.pool, newDataptr)
      r1 == Wr4(h.pool, newptr, RdBytes(h.pool, oldptr, SizeofInt))
      r2 == Wr8(r1, newDataptr + OffNext, tempA)
      r3 == Wr8(r2, newDataptr + OffPrev, tempB)
  IN  The({ Heap(copyLoop(r, newptr, oldptr, SizeofNode - SizeofInt, nSpace + 3 * SizeofInt, junk), h.freeList) :
            r \in {r3} })

\* myrealloc's success path: copy the old payload into the block at newptr
\* (first word from memory, the next sixteen bytes from tempA and tempB, the
\* rest byte by byte from memory).
reallocCopy(h, newptr, oldptr, tempA, tempB, size, junk) ==
  LET newDataptr == newptr - SizeofInt
      nSpace == -RdInt(h.pool, newDataptr)
      r1 == Wr4(h.pool, newptr, RdBytes(h.pool, oldptr, SizeofInt))
      r2 == Wr8(r1, newDataptr + OffNext, tempA)
      r3 == Wr8(r2, newDataptr + OffPrev, tempB)
  IN  The({ Heap(copyLoop(r, newptr, oldptr, SizeofNode - SizeofInt, Min(nSpace, size), junk), h.freeList) :
            r \in {r3} })

\* myrealloc after myfree and myalloc, tagging the old block allocated again
\* on the success path too.
reallocFinish_KeepsOld(al, oldptr, oldSpace, loc, size, junk) ==
  IF al.abort THEN al
  ELSE IF al.ret = NULL
  THEN The({ Result(reallocRestore(u, oldptr - SizeofInt, oldSpace, loc.tempA, loc.tempB), NULL, FALSE) :
             u \in {reallocUndo(al.heap, oldptr - SizeofInt, oldSpace, loc.prevHeadptr, loc.prevSpace, loc.nextHeadptr)} })
  ELSE The({ Result(reallocRestore(c, oldptr - SizeofInt, oldSpace, loc.tempA, loc.tempB), al.ret, FALSE) :
             c \in {reallocCopy(al.heap, al.ret, oldptr, loc.tempA, loc.tempB, size, junk)} })

\* myrealloc after myfree and myalloc, al being what myalloc returned and
\* loc the locals saved before myfree.
reallocFinish(al, oldptr, oldSpace, loc, size, junk) ==
  IF al.abort THEN al
  ELSE IF al.ret = NULL
  THEN The({ Result(reallocRestore(u, oldptr - SizeofInt, oldSpace, loc.tempA, loc.tempB), NULL, FALSE) :
             u \in {reallocUndo(al.heap, oldptr - SizeofInt, oldSpace, loc.prevHeadptr, loc.prevSpace, loc.nextHeadptr)} })
  ELSE Result(reallocCopy(al.heap, al.ret, oldptr, loc.tempA, loc.tempB, size, junk), al.ret, FALSE)

\* myrealloc: free the old block, allocate the new one, copy; on failure
\* restore the old block.
myrealloc(h, oldptr, size, junk) ==
  LET oldDataptr == oldptr - SizeofInt
      oldSpace == -RdInt(h.pool, oldDataptr)
      oldFootptr == oldptr + oldSpace
      endptr == oldFootptr + SizeofInt
  IN  The({ The({ IF fr.abort THEN fr
                  ELSE The({ reallocFinish(al, oldptr, oldSpace, loc, size, junk) :
                             al \in {myalloc(fr.heap, size)} }) :
                  fr \in {myfree(h, oldptr)} }) :
            loc \in { LET prevSpace == IF oldDataptr # mem
                                       THEN RdInt(h.pool, oldDataptr - SizeofInt)
                                       ELSE 0
                      IN  [ tempA |-> The({RdBytes(h.pool, oldDataptr + OffNext, SizeofPtr)}),
                            tempB |-> The({RdBytes(h.pool, oldDataptr + OffPrev, SizeofPtr)}),
                            prevSpace |-> prevSpace,
                            prevHeadptr |-> IF oldDataptr # mem /\ prevSpace > 0
                                            THEN oldDataptr - prevSpace - 2 * SizeofInt
                                            ELSE NULL,
                            nextHeadptr |-> IF endptr # PoolEnd /\ RdInt(h.pool, endptr) > 0
                                            THEN endptr
                                            ELSE NULL ] } })

\* ------------------------------------------------------------------ state
VARIABLES
  pool,         \* the bytes of the memory pool, indexed by address
  freeList,     \* the global freeList: header address of the first free block
  live,         \* the driver's pointers: [ptr, size] of every block it holds
  last,         \* the call just made: [op, ptr, size, ret, abort]
  prePool,      \* the pool as it was when that call was made
  preFreeList,  \* freeList as it was when that call was made
  preLive,      \* the driver's pointers when that call was made
  nops          \* number of calls made so far

vars == << pool, freeList, live, last, prePool, preFreeList, preLive, nops >>

heap == Heap(pool, freeList)

Call(op, ptr, size, ret, abort) ==
  [op |-> op, ptr |-> ptr, size |-> size, ret |-> ret, abort |-> abort]

\* main up to init_myalloc(): MEMORY_SIZE is set and the pool initialised.
Init ==
  \E j \in JunkBytes :
    \E h \in {init_myalloc([a \in PoolAddrs |-> j])} :
        /\ pool = h.pool
        /\ freeList = h.freeList
        /\ live = {}
        /\ last = Call("init", NULL, 0, NULL, FALSE)
        /\ prePool = h.pool
        /\ preFreeList = h.freeList
        /\ preLive = {}
        /\ nops = 0

Snapshot ==
  /\ prePool' = pool
  /\ preFreeList' = freeList
  /\ preLive' = live
  /\ nops' = nops + 1

CanCall == nops < MaxOps /\ ~last.abort

\* The pool after the driver filled size bytes at block with fill.
FillBlock(p, block, size, fill) ==
  [x \in DOMAIN p |-> IF x >= block /\ x < block + size THEN fill ELSE p[x]]

\* allocate(size, fill) of the driver: myalloc, then fill the block.
Allocate(size, fill) ==
  /\ CanCall
  /\ \E r \in {myalloc(heap, size)} :
         /\ pool' = IF r.ret # NULL /\ ~r.abort
                    THEN FillBlock(r.heap.pool, r.ret, size, fill)
                    ELSE r.heap.pool
         /\ freeList' = r.heap.freeList
         /\ live' = IF r.ret # NULL
                    THEN live \cup {[ptr |-> r.ret, size |-> size]}
                    ELSE live
         /\ last' = Call("alloc", NULL, size, r.ret, r.abort)
  /\ Snapshot

\* myfree(p) of the driver, p a pointer it holds.
Free(b) ==
  /\ CanCall
  /\ b \in live
  /\ \E r \in {myfree(heap, b.ptr)} :
         /\ pool' = r.heap.pool
         /\ freeList' = r.heap.freeList
         /\ live' = live \ {b}
         /\ last' = Call("free", b.ptr, b.size, NULL, r.abort)
  /\ Snapshot

\* b = myrealloc(b, size) of the driver, b a pointer it holds.
Realloc(b, size, junk) ==
  /\ CanCall
  /\ b \in live
  /\ \E r \in {myrealloc(heap, b.ptr, size, junk)} :
         /\ pool' = r.heap.pool
         /\ freeList' = r.heap.freeList
         /\ live' = IF r.ret # NULL
                    THEN (live \ {b}) \cup {[ptr |-> r.ret, size |-> size]}
                    ELSE live
         /\ last' = Call("realloc", b.ptr, size, r.ret, r.abort)
  /\ Snapshot

\* The values the bytes myrealloc(oldptr, size) may read past the end of
\* the pool can have: its byte loop reads below oldptr + size only.
JunkFor(oldptr, size) ==
  IF oldptr + size > PoolEnd THEN JunkBytes ELSE {CHOOSE j \in JunkBytes : TRUE}

Next ==
  \/ \E size \in Sizes : Allocate(size, FirstFill + nops)
  \/ \E b \in live : Free(b)
  \/ \E b \in live, size \in Sizes :
       \E junk \in JunkFor(b.ptr, size) : Realloc(b, size, junk)

Spec == Init /\ [][Next]_vars

\* ------------------------------------------------- reading a heap's layout
\* The blocks found by walking p from address a as checkMem does: the
\* address of each block and its header word.  A walk that cannot land on
\* mem + MEMORY_SIZE ends in an entry with ok = FALSE.
RECURSIVE WalkFrom(_, _)
WalkFrom(p, a) ==
  IF a = PoolEnd THEN << >>
  ELSE IF a + 2 * SizeofInt > PoolEnd
  THEN << [addr |-> a, tag |-> 0, ok |-> FALSE] >>
  ELSE LET t == RdInt(p, a)
       IN  << [addr |-> a, tag |-> t, ok |-> TRUE] >>
           \o WalkFrom(p, a + Abs(t) + 2 * SizeofInt)

Blocks(p) == WalkFrom(p, mem)

\* Whether n can be the address of a node lying inside the pool.
NodeInPool(n) == n >= mem /\ n + SizeofNode <= PoolEnd

\* The nodes met by following next from node n, as findHead does.  A walk
\* that leaves the pool or takes more steps than there are bytes ends in
\* WildPtr.
RECURSIVE FollowNext(_, _, _)
FollowNext(p, n, fuel) ==
  IF n = NULL THEN << >>
  ELSE IF fuel = 0 \/ ~NodeInPool(n) THEN << WildPtr >>
  ELSE << n >> \o FollowNext(p, RdPtr(p, n + OffNext), fuel - 1)

FreeNodes(p, fl) == FollowNext(p, fl, MEMORY_SIZE)

SeqSet(q) == {q[i] : i \in 1..Len(q)}

RECURSIVE SeqSum(_)
SeqSum(q) == IF q = << >> THEN 0 ELSE Head(q) + SeqSum(Tail(q))

Footprint(b) == Abs(b.tag) + 2 * SizeofInt

\* The header addresses of the blocks of p whose header word is positive.
FreeBlockAddrs(p) == {b.addr : b \in {c \in SeqSet(Blocks(p)) : c.tag > 0}}

\* ------------------------------------------------------------------ claims
\* C1: in every reachable state, walking the blocks from the base of the
\* pool by |tag| + 2T lands exactly on base + N, and the footprints
\* |payload| + 2T of the blocks met add up to N (checkMem() = MEMORY_SIZE).
C1_TotalAccounted ==
  LET bs == Blocks(pool)
  IN  /\ \A i \in 1..Len(bs) : bs[i].ok
      /\ SeqSum([i \in 1..Len(bs) |-> Footprint(bs[i])]) = MEMORY_SIZE
      /\ checkMem(heap) = MEMORY_SIZE

C1_Witness ==
  /\ last.op = "realloc" /\ last.ret # NULL
  /\ Len(Blocks(pool)) >= 3
  /\ \E i \in 1..Len(Blocks(pool)) : Blocks(pool)[i].tag > 0
  /\ C1_TotalAccounted

\* C2: after every call the nodes reachable from freeList are exactly the
\* blocks with a positive tag, each reached once; no block with a negative
\* tag is reached.
C2_FreeListIsFreeBlocks ==
  LET fs == FreeNodes(pool, freeList)
  IN  /\ SeqSet(fs) = FreeBlockAddrs(pool)
      /\ Cardinality(SeqSet(fs)) = Len(fs)

C2_Witness ==
  /\ last.op = "free"
  /\ Len(FreeNodes(pool, freeList)) >= 2
  /\ live # {}
  /\ C2_FreeListIsFreeBlocks

\* C3: after every call no two physically adjacent blocks are both free.
C3_NoAdjacentFree ==
  LET bs == Blocks(pool)
  IN  \A i \in 1..(Len(bs) - 1) : ~(bs[i].tag > 0 /\ bs[i + 1].tag > 0)

\* Whether, in the heap before the last call, the block whose payload is at
\* ptr had a free physical predecessor / successor.
PrevWasFree(ptr) ==
  ptr - SizeofInt # mem /\ RdInt(prePool, ptr - 2 * SizeofInt) > 0

NextWasFree(ptr) ==
  LET endptr == ptr - RdInt(prePool, ptr - SizeofInt) + SizeofInt
  IN  endptr # PoolEnd /\ RdInt(prePool, endptr) > 0

C3_Witness ==
  /\ last.op = "free"
  /\ PrevWasFree(last.ptr) /\ NextWasFree(last.ptr)
  /\ C3_NoAdjacentFree

\* C4: after every call, for every block met by the left-to-right walk the
\* header word equals the footer word at header + T + |header|.
C4_HeaderEqualsFooter ==
  LET bs == Blocks(pool)
  IN  \A i \in 1..Len(bs) :
        /\ bs[i].ok
        /\ RdInt(pool, bs[i].addr + SizeofInt + Abs(bs[i].tag)) = bs[i].tag

C4_Witness ==
  /\ last.op = "alloc" /\ last.ret # NULL
  /\ Len(Blocks(pool)) = Len(Blocks(prePool)) + 1
  /\ Len(Blocks(pool)) >= 3
  /\ C4_HeaderEqualsFooter

\* C5: after every call the free list is a well-formed doubly-linked list:
\* the head's prev is null, the walk along next ends in null without
\* meeting a node twice, and x.next = y implies y.prev = x.
C5_ListWellFormed ==
  LET fs == FreeNodes(pool, freeList)
  IN  /\ WildPtr \notin SeqSet(fs)
      /\ Cardinality(SeqSet(fs)) = Len(fs)
      /\ fs # << >> => RdPtr(pool, fs[1] + OffPrev) = NULL
      /\ fs # << >> => RdPtr(pool, fs[Len(fs)] + OffNext) = NULL
      /\ \A i \in 1..(Len(fs) - 1) : RdPtr(pool, fs[i + 1] + OffPrev) = fs[i]

C5_Witness ==
  /\ Len(FreeNodes(pool, freeList)) >= 2
  /\ last.op \in {"free", "realloc"}
  /\ C5_ListWellFormed

\* ------------------------------------------------- claims about myrealloc
\* The size the driver had asked for the block it passed to the last call.
OldSize == (CHOOSE b \in preLive : b.ptr = last.ptr).size

\* The payload size of that block when the call was made.
OldSpace == -RdInt(prePool, last.ptr - SizeofInt)

ReallocOk == last.op = "realloc" /\ ~last.abort /\ last.ret # NULL

ReallocNull == last.op = "realloc" /\ ~last.abort /\ last.ret = NULL

\* C6: when q = myrealloc(p, s2) returns non-null, the bytes q[0..min(s1, s2))
\* after the call equal the bytes p[0..min(s1, s2)) before the call, in every
\* heap layout.
C6_ReallocKeepsData ==
  ReallocOk =>
    \A i \in 0..(Min(OldSize, last.size) - 1) :
      pool[last.ret + i] = prePool[last.ptr + i]

\* C7: when myrealloc(p, s2) returns null, the sequence of blocks (address,
\* payload size and sign of every block) is the one before the call; p's
\* block is again allocated with its payload size.
C7_NullReallocKeepsBlocks ==
  ReallocNull =>
    /\ Blocks(pool) = Blocks(prePool)
    /\ RdInt(pool, last.ptr - SizeofInt) = -OldSpace
    /\ RdInt(pool, last.ptr + OldSpace) = -OldSpace

C7_Witness ==
  /\ ReallocNull
  /\ PrevWasFree(last.ptr) /\ NextWasFree(last.ptr)
  /\ C7_NullReallocKeepsBlocks

\* The other three neighbour cases of a myrealloc that returned null.
C7_ReachedNeither == ReallocNull /\ ~PrevWasFree(last.ptr) /\ ~NextWasFree(last.ptr)

C7_ReachedPrevOnly == ReallocNull /\ PrevWasFree(last.ptr) /\ ~NextWasFree(last.ptr)

C7_ReachedNextOnly == ReallocNull /\ ~PrevWasFree(last.ptr) /\ NextWasFree(last.ptr)

\* C8: when myrealloc(p, s2) returns null, the free list read from its head
\* is the same sequence of blocks, in the same order, as before the call.
C8_NullReallocKeepsListOrder ==
  ReallocNull => FreeNodes(pool, freeList) = FreeNodes(prePool, preFreeList)

\* What does hold of the free list after a myrealloc that returned null:
\* it has the same nodes.
C8_NullReallocKeepsListMembers ==
  ReallocNull =>
    SeqSet(FreeNodes(pool, freeList)) = SeqSet(FreeNodes(prePool, preFreeList))

\* C9: when myrealloc(p, s2) returns null, every byte of p's payload,
\* the bytes myfree overwrote with the list links included, has the value
\* it had before the call.
C9_NullReallocKeepsPayload ==
  ReallocNull =>
    \A i \in 0..(OldSpace - 1) : pool[last.ptr + i] = prePool[last.ptr + i]

C9_Witness ==
  /\ ReallocNull
  /\ NextWasFree(last.ptr)
  /\ OldSize >= SizeofNode - SizeofInt
  /\ \A i \in 0..(OldSize - 1) : prePool[last.ptr + i] >= FirstFill
  /\ C9_NullReallocKeepsPayload

\* --------------------------------------------------- claims about myalloc
\* Whether some node of the free list before the last call had a payload
\* of at least size bytes.
FitExisted(size) ==
  \E n \in SeqSet(FreeNodes(prePool, preFreeList)) : RdInt(prePool, n) >= size

\* Whether the pool before the last call was one free block (a fresh arena).
WasFresh ==
  /\ Len(Blocks(prePool)) = 1
  /\ Blocks(prePool)[1].tag = MEMORY_SIZE - 2 * SizeofInt

\* C10: myalloc(request), request > 0, returns null iff no block of the free
\* list has payload >= request: a request above N - 2T always fails, a
\* request of exactly N - 2T on a fresh arena succeeds and leaves no free
\* block; when it returns null the heap (pool bytes and freeList) is
\* unchanged.
C10_AllocNullIffNoFit ==
  (last.op = "alloc" /\ last.size > 0 /\ ~last.abort) =>
    /\ (last.ret = NULL) <=> ~FitExisted(last.size)
    /\ last.size > MEMORY_SIZE - 2 * SizeofInt => last.ret = NULL
    /\ (WasFresh /\ last.size = MEMORY_SIZE - 2 * SizeofInt) =>
         /\ last.ret # NULL
         /\ freeList = NULL
         /\ FreeBlockAddrs(pool) = {}
    /\ last.ret = NULL => (pool = prePool /\ freeList = preFreeList)

C10_Witness ==
  /\ last.op = "alloc" /\ last.ret = NULL
  /\ preFreeList # NULL
  /\ last.size <= MEMORY_SIZE - 2 * SizeofInt
  /\ C10_AllocNullIffNoFit

\* The other cases of C10: the whole fresh arena handed out, and a request
\* above N - 2T.
C10_ReachedWholeArena ==
  last.op = "alloc" /\ WasFresh /\ last.size = MEMORY_SIZE - 2 * SizeofInt /\ last.ret # NULL

C10_ReachedTooLarge ==
  last.op = "alloc" /\ last.size > MEMORY_SIZE - 2 * SizeofInt /\ last.ret = NULL

\* The node a best-fit search for size must return on the free list fl of
\* pool p: among the nodes with payload >= size one of minimum payload, and
\* among those the one nearest the head; NULL when none fits.
BestFitOf(p, fl, size) ==
  LET fs == FreeNodes(p, fl)
      fits == {i \in 1..Len(fs) : RdInt(p, fs[i]) >= size}
      least == {i \in fits : \A j \in fits : RdInt(p, fs[i]) <= RdInt(p, fs[j])}
  IN  IF fits = {} THEN NULL
      ELSE fs[CHOOSE i \in least : \A j \in least : i <= j]

\* Request sizes to probe findHead with on the free list fl of pool p: the
\* driver's sizes and the sizes at and next to the payload of every node.
ProbeSizes(p, fl) ==
  {s \in Sizes \cup {RdInt(p, n) + d : n \in SeqSet(FreeNodes(p, fl)), d \in {-1, 0, 1}} :
     s > 0}

\* C11: for every free-list state and every request size > 0 the block
\* findHead returns, and so the block myalloc carves from, has the minimum
\* payload among the free blocks with payload >= size and is, among the
\* blocks tied at that minimum, the one closest to the free-list head; the
\* perfect-fit break does not change the result.
C11_BestFit ==
  /\ \A size \in ProbeSizes(pool, freeList) :
       findHead(heap, size) = BestFitOf(pool, freeList, size)
  /\ (last.op = "alloc" /\ last.size > 0 /\ last.ret # NULL) =>
       last.ret - SizeofInt = BestFitOf(prePool, preFreeList, last.size)

\* An allocation that passed over a larger fitting block at the list head.
C11_Witness ==
  /\ last.op = "alloc" /\ last.ret # NULL
  /\ preFreeList # last.ret - SizeofInt
  /\ RdInt(prePool, preFreeList) > last.size
  /\ RdInt(prePool, preFreeList) > RdInt(prePool, last.ret - SizeofInt)
  /\ C11_BestFit

\* A free list with two nodes of the same payload, probed with a size that
\* both fit without fitting perfectly.
C11_ReachedTie ==
  LET fs == FreeNodes(pool, freeList)
  IN  \E i, j \in 1..Len(fs) :
        /\ i < j
        /\ RdInt(pool, fs[i]) = RdInt(pool, fs[j])
        /\ findHead(heap, RdInt(pool, fs[i]) - 1) = fs[i]

\* ------------------------------------------- claims about live allocations
\* The addresses of the bytes of the boundary tags of all blocks of p.
TagAddrs(p) ==
  UNION { (b.addr .. (b.addr + SizeofInt - 1))
            \cup ((b.addr + SizeofInt + Abs(b.tag)) .. (b.addr + 2 * SizeofInt + Abs(b.tag) - 1)) :
          b \in SeqSet(Blocks(p)) }

\* The addresses p[0..s) of the driver's allocation b.
UserRange(b) == b.ptr .. (b.ptr + b.size - 1)

\* C13: in every reachable state, for every pointer p returned by a
\* successful myalloc(s) or myrealloc(_, s) and not yet freed, the range
\* p[0..s) lies inside the pool, contains no byte of a boundary tag of any
\* block, and is disjoint from the range of every other live allocation.
C13_LiveRangesSafe ==
  \A b \in live :
    /\ UserRange(b) \subseteq PoolAddrs
    /\ UserRange(b) \cap TagAddrs(pool) = {}
    /\ \A c \in live \ {b} : UserRange(b) \cap UserRange(c) = {}

C13_Witness ==
  /\ ReallocOk /\ last.ret # last.ptr
  /\ Cardinality(live) >= 2
  /\ \E b \in live : b.size > SizeofNode - SizeofInt
  /\ C13_LiveRangesSafe

\* --------------------------------------------------- claims about myfree
\* The one block of a pool that is a single free block.
WholeArenaFree == << [addr |-> mem, tag |-> MEMORY_SIZE - 2 * SizeofInt, ok |-> TRUE] >>

\* C15: from any reachable state, once every live allocation has been freed
\* (in any order), the arena is exactly one block, free, of payload N - 2T,
\* and the free list holds exactly that node, its prev and next null.
C15_AllFreedIsOneBlock ==
  live = {} =>
    /\ Blocks(pool) = WholeArenaFree
    /\ RdInt(pool, PoolEnd - SizeofInt) = MEMORY_SIZE - 2 * SizeofInt
    /\ freeList = mem
    /\ FreeNodes(pool, freeList) = << mem >>
    /\ RdPtr(pool, mem + OffNext) = NULL
    /\ RdPtr(pool, mem + OffPrev) = NULL

\* The last live allocation freed, lying between two free blocks.
C15_Witness ==
  /\ live = {}
  /\ last.op = "free"
  /\ PrevWasFree(last.ptr) /\ NextWasFree(last.ptr)
  /\ Len(Blocks(prePool)) >= 3
  /\ C15_AllFreedIsOneBlock

\* The header addresses before the last call of the free physical
\* neighbours of the block whose payload is at ptr.
PrevHeadOf(ptr) == ptr - SizeofInt - RdInt(prePool, ptr - 2 * SizeofInt) - 2 * SizeofInt

NextHeadOf(ptr) == ptr - RdInt(prePool, ptr - SizeofInt) + SizeofInt

\* The header address and the payload the block holding ptr's old payload
\* must have after myfree(ptr): the block itself, extended over the physical
\* predecessor and the physical successor where those were free.
MergedHead(ptr) == IF PrevWasFree(ptr) THEN PrevHeadOf(ptr) ELSE ptr - SizeofInt

MergedSpace(ptr) ==
  -RdInt(prePool, ptr - SizeofInt)
    + (IF PrevWasFree(ptr) THEN RdInt(prePool, PrevHeadOf(ptr)) + 2 * SizeofInt ELSE 0)
    + (IF NextWasFree(ptr) THEN RdInt(prePool, NextHeadOf(ptr)) + 2 * SizeofInt ELSE 0)

\* C16: after myfree(p) the block holding p's old payload is one free block
\* whose extent is p's block plus the physically preceding block if that was
\* free plus the physically following block if that was free; its payload
\* is the sum of the merged payloads plus 2T per merge; every absorbed
\* neighbour is no longer in the free list; the other blocks are as before.
C16_FreeMergesNeighbours ==
  (last.op = "free" /\ ~last.abort) =>
    LET ptr == last.ptr
        head == MergedHead(ptr)
        space == MergedSpace(ptr)
        fs == SeqSet(FreeNodes(pool, freeList))
        inside(b) == b.addr >= head /\ b.addr < head + space + 2 * SizeofInt
    IN  /\ [addr |-> head, tag |-> space, ok |-> TRUE] \in SeqSet(Blocks(pool))
        /\ RdInt(pool, head + SizeofInt + space) = space
        /\ head \in fs
        /\ PrevWasFree(ptr) => ptr - SizeofInt \notin fs
        /\ NextWasFree(ptr) => NextHeadOf(ptr) \notin fs
        /\ {b \in SeqSet(Blocks(pool)) : ~inside(b)}
             = {b \in SeqSet(Blocks(prePool)) : ~inside(b)}
        /\ fs = (SeqSet(FreeNodes(prePool, preFreeList)) \cup {head})
                  \ (IF NextWasFree(ptr) THEN {NextHeadOf(ptr)} ELSE {})

\* Both merges in one myfree, other blocks remaining.
C16_Witness ==
  /\ last.op = "free" /\ ~last.abort
  /\ PrevWasFree(last.ptr) /\ NextWasFree(last.ptr)
  /\ live # {}
  /\ C16_FreeMergesNeighbours

C16_ReachedNoMerge ==
  last.op = "free" /\ ~last.abort /\ ~PrevWasFree(last.ptr) /\ ~NextWasFree(last.ptr)

C16_ReachedPrevOnly ==
  last.op = "free" /\ ~last.abort /\ PrevWasFree(last.ptr) /\ ~NextWasFree(last.ptr)

C16_ReachedNextOnly ==
  last.op = "free" /\ ~last.abort /\ ~PrevWasFree(last.ptr) /\ NextWasFree(last.ptr)

\* ------------------------------------------------ claims about block sizes
\* The minimum payload that hosts the link fields: next and prev end
\* sizeof(node) bytes after the header, sizeof(node) - sizeof(int) bytes
\* into the payload.
MinPayload == SizeofNode - SizeofInt

\* What a successful direct myalloc(request) must have done to the block it
\* chose when L is the minimum payload: with s = max(request, L), a block of
\* payload above s + 2T + L is split into a block of payload s, returned,
\* and a free block of payload original - s - 2T at header + 2T + s; any
\* other block is handed out whole.  The payload returned is >= request.
SplitRule(L) ==
  (last.op = "alloc" /\ last.size > 0 /\ last.ret # NULL /\ ~last.abort) =>
    LET head == last.ret - SizeofInt
        original == RdInt(prePool, head)
        s == IF last.size > L THEN last.size ELSE L
        got == -RdInt(pool, head)
        suffix == head + 2 * SizeofInt + s
    IN  /\ got >= last.size
        /\ RdInt(pool, head + SizeofInt + got) = -got
        /\ IF original > s + 2 * SizeofInt + L
           THEN /\ got = s
                /\ RdInt(pool, suffix) = original - s - 2 * SizeofInt
                /\ RdInt(pool, suffix + SizeofInt + RdInt(pool, suffix))
                     = original - s - 2 * SizeofInt
                /\ suffix \in SeqSet(FreeNodes(pool, freeList))
           ELSE got = original

\* C17: on a successful myalloc(request) with s = max(request, L), L the
\* minimum payload that hosts the link fields: a chosen block of payload
\* above s + 2T + L is split, the returned block has payload exactly s and
\* the suffix is a free block of payload original - s - 2T starting at
\* header + 2T + s; otherwise the whole block is handed out with its payload
\* unchanged; in both cases the returned payload is >= request.
C17_SplitRule == SplitRule(MinPayload)

\* A request below L, inflated to L and split off a larger block.
C17_Witness ==
  /\ last.op = "alloc" /\ last.ret # NULL
  /\ last.size < MinPayload
  /\ RdInt(prePool, last.ret - SizeofInt) > 2 * MinPayload + 2 * SizeofInt
  /\ RdInt(pool, last.ret - SizeofInt) = -MinPayload
  /\ C17_SplitRule

\* The boundary of the split test: a block of payload exactly s + 2T + L is
\* handed out whole.
C17_ReachedThreshold ==
  /\ last.op = "alloc" /\ last.ret # NULL
  /\ last.size >= MinPayload
  /\ RdInt(prePool, last.ret - SizeofInt) = last.size + 2 * SizeofInt + MinPayload
  /\ RdInt(pool, last.ret - SizeofInt) = -(last.size + 2 * SizeofInt + MinPayload)

\* The same rule with L the size of two pointers (without the four bytes
\* between the header word and the next field); the code does not follow it.
SplitRuleTwoPointers == SplitRule(2 * SizeofPtr)

\* The addresses of the next and prev fields of the node at header a.
LinkAddrs(a) == (a + OffNext) .. (a + OffPrev + SizeofPtr - 1)

\* The addresses of the payload of block b.
PayloadAddrs(b) == (b.addr + SizeofInt) .. (b.addr + SizeofInt + Abs(b.tag) - 1)

\* C18: in every reachable state every block, free or allocated, has
\* payload >= L, the size needed for the prev/next link fields, so the link
\* fields of every free block lie inside that block's own payload and
\* overlap neither its footer nor a neighbouring block.
C18_MinimumPayload ==
  \A b \in SeqSet(Blocks(pool)) :
    /\ b.ok
    /\ Abs(b.tag) >= MinPayload
    /\ Abs(b.tag) >= 2 * SizeofPtr
    /\ b.tag > 0 => LinkAddrs(b.addr) \subseteq PayloadAddrs(b)

\* A free block of payload exactly L between allocated blocks: its prev
\* field ends at its footer.
C18_Witness ==
  /\ \E i \in 2..Len(Blocks(pool)) :
       /\ Blocks(pool)[i].tag = MinPayload
       /\ Blocks(pool)[i - 1].tag < 0
       /\ i < Len(Blocks(pool))
       /\ Blocks(pool)[i].addr + OffPrev + SizeofPtr
            = Blocks(pool)[i].addr + SizeofInt + MinPayload
  /\ last.op = "free"
  /\ C18_MinimumPayload

\* ------------------------------------------ claims about myrealloc's reads
\* The payload size of the block the last myrealloc returned (nSpace).
NewSpace == -RdInt(pool, last.ret - SizeofInt)

\* The offsets from oldptr of the bytes a successful myrealloc(oldptr, size)
\* reads from the old block: oldHeadptr->next and ->prev (tempA, tempB),
\* that is offsets sizeof(int) .. sizeof(node) - sizeof(int) - 1, before
\* myfree; the int at offset 0; and offset i for every iteration of the byte
\* loop, i from sizeof(node) - sizeof(int) while i < nSpace && i < size.
ReallocReads(nSpace, size) ==
  (0 .. (SizeofInt - 1))
    \cup (SizeofInt .. (SizeofNode - SizeofInt - 1))
    \cup ((SizeofNode - SizeofInt) .. (Min(nSpace, size) - 1))

\* C19: when myrealloc(p, new_size) succeeds, the payload bytes read from the
\* old block are exactly min(new_size, old_payload_size) in number, and no
\* byte at offset >= old_payload_size from p (the old footer, a following
\* block, memory past mem + MEMORY_SIZE) is read, also when
\* new_size > old_payload_size.
C19_ReadsOnlyOldPayload ==
  ReallocOk =>
    /\ \A i \in ReallocReads(NewSpace, last.size) : i < OldSpace
    /\ Cardinality(ReallocReads(NewSpace, last.size)) = Min(last.size, OldSpace)

\* What does hold of the reads: they stay below the larger of the old
\* payload size and the requested size, and inside the new block's payload
\* size.
C19_ReadsBelowRequest ==
  ReallocOk =>
    \A i \in ReallocReads(NewSpace, last.size) :
      i < OldSpace \/ (i < last.size /\ i < NewSpace)

\* --------------------------------------------------- claims about isValid
\* The pointers that pass the first test of isValid (mem + sizeof(int) <=
\* oldptr <= mem + MEMORY_SIZE - sizeof(int)), for which it reads the word
\* before oldptr.
InRangePtrs == (mem + SizeofInt) .. (PoolEnd - SizeofInt)

\* C20: isValid(payload) returns false whenever the header word at
\* payload - T is non-negative, that is for every header value >= 0, zero
\* included, whatever the word at the implied footer position.
C20_NonNegativeHeaderInvalid ==
  \A p \in InRangePtrs : RdInt(pool, p - SizeofInt) >= 0 => ~isValid(heap, p)

\* What does hold of isValid: it returns false whenever the header word is
\* positive, and accepts a zero header word exactly when the word at the
\* pointer itself is zero too.
C20_PositiveHeaderInvalid ==
  \A p \in InRangePtrs :
    /\ RdInt(pool, p - SizeofInt) > 0 => ~isValid(heap, p)
    /\ RdInt(pool, p - SizeofInt) = 0 => (isValid(heap, p) <=> RdInt(pool, p) = 0)

\* ------------------------------------------------------- ill-formed calls
\* Number of well-formed calls the driver makes before an ill-formed one.
MisuseDepth == 4

\* Request sizes that are not positive.  For these two every step of
\* myalloc is defined: 0 is raised to sizeof(node) - sizeof(int) by MAX, and
\* for -(sizeof(int) + sizeof(node)) - 1 the split threshold
\* size + sizeof(int) + sizeof(node) is SIZE_MAX, so no block is ever split.
\* (For -1 .. -28 splitBlock would be called with a negative size and store
\* below the block's payload.)
IllSizes == {0, -(SizeofInt + SizeofNode) - 1}

\* Whether the last call was an ill-formed one (the run ends there).
Misused ==
  \/ last.op = "alloc" /\ last.size <= 0
  \/ last.op = "free" /\ last.ptr \notin {b.ptr : b \in preLive}

CanMisuse == nops < MisuseDepth /\ ~last.abort /\ ~Misused

\* allocate(size, fill) of the driver with size <= 0: the fill loop runs
\* zero times.
IllAllocate(size) ==
  /\ CanMisuse
  /\ \E r \in {myalloc(heap, size)} :
         /\ pool' = r.heap.pool
         /\ freeList' = r.heap.freeList
         /\ live' = IF r.ret # NULL
                    THEN live \cup {[ptr |-> r.ret, size |-> size]}
                    ELSE live
         /\ last' = Call("alloc", NULL, size, r.ret, r.abort)
  /\ Snapshot

\* Pointers the driver holds no allocation for: null, addresses at and
\* beyond the ends of the pool, the payload address of every free block (a
\* pointer freed before), and an address inside every live payload.
StrayPtrs ==
  {NULL, mem, PoolEnd - SizeofInt + 1, PoolEnd}
    \cup {a + SizeofInt : a \in FreeBlockAddrs(pool)}
    \cup {b.ptr + SizeofInt : b \in live}

\* myfree(p) of the driver for a stray pointer that isValid rejects.  (What
\* myfree does to the heap for a stray pointer that isValid accepts is not
\* modelled.)
StrayFree(p) ==
  /\ CanMisuse
  /\ p \notin {b.ptr : b \in live}
  /\ ~isValid(heap, p)
  /\ \E r \in {myfree(heap, p)} :
         /\ pool' = r.heap.pool
         /\ freeList' = r.heap.freeList
         /\ live' = live
         /\ last' = Call("free", p, 0, NULL, r.abort)
  /\ Snapshot

NextMisuse ==
  \/ CanMisuse /\ Next
  \/ \E size \in IllSizes : IllAllocate(size)
  \/ \E p \in StrayPtrs : StrayFree(p)

\* The driver making well-formed calls and then, possibly, one ill-formed
\* call.
SpecMisuse == Init /\ [][NextMisuse]_vars

\* C12: myalloc(request) with request <= 0 returns null, does not abort and
\* leaves the heap (pool bytes and freeList) unchanged.
C12_NonPositiveAllocIsNull ==
  (last.op = "alloc" /\ last.size <= 0) =>
    /\ last.ret = NULL
    /\ ~last.abort
    /\ pool = prePool
    /\ freeList = preFreeList

\* What the code does for a request of 0 or below -(sizeof(int) +
\* sizeof(node)) while a free block exists: it hands out a block.
C12_NonPositiveAllocSucceeds ==
  (last.op = "alloc" /\ last.size <= 0 /\ preFreeList # NULL) =>
    /\ last.ret # NULL
    /\ ~last.abort
    /\ RdInt(pool, last.ret - SizeofInt) <= -(SizeofNode - SizeofInt)

\* The heap as it was when the last call was made.
preHeap == Heap(prePool, preFreeList)

C14_ReachedLiveFree ==
  /\ last.op = "free" /\ ~last.abort
  /\ last.ptr \in {b.ptr : b \in preLive}
  /\ live # {}

\* ------------------------------------------------ claims about a second free
\* C21: for any live pointer p, after myfree(p) returned, a second myfree(p)
\* with no call in between is rejected by isValid, so it aborts, whether or
\* not the first myfree merged backward and/or forward, and the rejected
\* call leaves the heap as it was.
C21_DoubleFreeRejected ==
  (last.op = "free" /\ ~last.abort) =>
    /\ ~isValid(heap, last.ptr)
    /\ myfree(heap, last.ptr) = Result(heap, NULL, TRUE)

\* A first myfree that merged both ways, so that the pointer lies inside a
\* free block and is not the payload address of any block.
C21_Witness ==
  /\ last.op = "free" /\ ~last.abort
  /\ PrevWasFree(last.ptr) /\ NextWasFree(last.ptr)
  /\ live # {}
  /\ C21_DoubleFreeRejected

\* ------------------------------------------ claims about the free-list order
\* The sequence q without the node n.
Without(q, n) == SelectSeq(q, LAMBDA m : m # n)

AllocOk == last.op = "alloc" /\ ~last.abort /\ last.ret # NULL

FreeOk == last.op = "free" /\ ~last.abort

\* Whether the myalloc just made split the block it took: the block at the
\* returned address has a smaller payload than it had as a free block.
AllocSplit ==
  -RdInt(pool, last.ret - SizeofInt) < RdInt(prePool, last.ret - SizeofInt)

\* The header address of the second block of that split.
AllocSuffix == last.ret - RdInt(pool, last.ret - SizeofInt) + SizeofInt

\* C22: insertion in the free list is at the head: after myfree(p) whose
\* physical predecessor is not free, the resulting free block (p's block,
\* merged with its successor where that was free) is the first node of the
\* free list; after a myalloc that splits, the second block of the split is
\* the first node; all other free nodes keep their relative order.
C22_InsertAtHead ==
  /\ (FreeOk /\ ~PrevWasFree(last.ptr)) =>
       FreeNodes(pool, freeList) =
         <<last.ptr - SizeofInt>>
           \o (IF NextWasFree(last.ptr)
               THEN Without(FreeNodes(prePool, preFreeList), NextHeadOf(last.ptr))
               ELSE FreeNodes(prePool, preFreeList))
  /\ AllocOk =>
       FreeNodes(pool, freeList) =
         (IF AllocSplit THEN <<AllocSuffix>> ELSE << >>)
           \o Without(FreeNodes(prePool, preFreeList), last.ret - SizeofInt)

\* A myalloc that split a block which was not the first node of the list.
C22_Witness ==
  /\ AllocOk /\ AllocSplit
  /\ Len(FreeNodes(prePool, preFreeList)) >= 2
  /\ preFreeList # last.ret - SizeofInt
  /\ C22_InsertAtHead

\* The other case of C22: myfree with a predecessor not free, merging with
\* a successor that was not the first node of the list.
C22_ReachedFree ==
  /\ FreeOk /\ ~PrevWasFree(last.ptr) /\ NextWasFree(last.ptr)
  /\ Len(FreeNodes(prePool, preFreeList)) >= 2
  /\ preFreeList # NextHeadOf(last.ptr)

\* C23: when myfree(p) merges p's block into a free physical predecessor,
\* the merged block keeps the predecessor's node and its place in the free
\* list; with a successor that is not free the free list after the call is
\* the same sequence of nodes as before the call, and with a free successor
\* it is that sequence without the successor's node.
C23_BackwardMergeKeepsNode ==
  (FreeOk /\ PrevWasFree(last.ptr)) =>
    /\ FreeNodes(pool, freeList) =
         (IF NextWasFree(last.ptr)
          THEN Without(FreeNodes(prePool, preFreeList), NextHeadOf(last.ptr))
          ELSE FreeNodes(prePool, preFreeList))
    /\ PrevHeadOf(last.ptr) \in SeqSet(FreeNodes(pool, freeList))
    /\ RdInt(pool, PrevHeadOf(last.ptr)) = MergedSpace(last.ptr)

\* A backward merge, the successor not free, into a predecessor that is not
\* the first node of the list.
C23_Witness ==
  /\ FreeOk /\ PrevWasFree(last.ptr) /\ ~NextWasFree(last.ptr)
  /\ preFreeList # PrevHeadOf(last.ptr)
  /\ Len(FreeNodes(prePool, preFreeList)) >= 2
  /\ C23_BackwardMergeKeepsNode

\* The other case of C23: the successor free as well.
C23_ReachedBothMerged ==
  /\ FreeOk /\ PrevWasFree(last.ptr) /\ NextWasFree(last.ptr)
  /\ preFreeList # PrevHeadOf(last.ptr)

\* ------------------------------------------------- claims about call pairs
\* C24: when myfree(p) merged with neither neighbour, a myalloc(s) made
\* next, s being the payload size of p's block, returns the address p again
\* (the freed block is the first node of the list and a perfect fit), and
\* p's block is allocated again with that payload.
C24_FreedHoleIsReused ==
  (FreeOk /\ ~PrevWasFree(last.ptr) /\ ~NextWasFree(last.ptr)) =>
    \E s \in {RdInt(pool, last.ptr - SizeofInt)} :
      \E r \in {myalloc(heap, s)} :
        /\ ~r.abort
        /\ r.ret = last.ptr
        /\ RdInt(r.heap.pool, last.ptr - SizeofInt) = -s

\* A myfree that merged nothing, with another free block of the same payload
\* further down the list.
C24_Witness ==
  /\ FreeOk /\ ~PrevWasFree(last.ptr) /\ ~NextWasFree(last.ptr)
  /\ live # {}
  /\ \E n \in SeqSet(FreeNodes(pool, freeList)) :
       /\ n # last.ptr - SizeofInt
       /\ RdInt(pool, n) = RdInt(pool, last.ptr - SizeofInt)
  /\ C24_FreedHoleIsReused

\* C25: from any reachable state, p = myalloc(r) succeeding and myfree(p)
\* made next leave every block with the address, payload size and tag sign
\* (header and footer) it had before the myalloc, and the free list with the
\* same set of nodes; the order of the list may differ.
C25_AllocFreeRestoresLayout ==
  AllocOk =>
    \E r \in {myfree(heap, last.ret)} :
      /\ ~r.abort
      /\ Blocks(r.heap.pool) = Blocks(prePool)
      /\ \A b \in SeqSet(Blocks(prePool)) :
           RdInt(r.heap.pool, b.addr + SizeofInt + Abs(b.tag)) = b.tag
      /\ SeqSet(FreeNodes(r.heap.pool, r.heap.freeList))
           = SeqSet(FreeNodes(prePool, preFreeList))

\* A myalloc that split a block, after which myfree gives the free list in
\* another order than before the myalloc.
C25_Witness ==
  /\ AllocOk /\ AllocSplit
  /\ \E r \in {myfree(heap, last.ret)} :
       FreeNodes(r.heap.pool, r.heap.freeList) # FreeNodes(prePool, preFreeList)
  /\ C25_AllocFreeRestoresLayout

\* The other case of C25: a myalloc that took a whole block lying between
\* two allocated blocks or pool ends.
C25_ReachedWholeBlock ==
  /\ AllocOk /\ ~AllocSplit
  /\ Len(FreeNodes(prePool, preFreeList)) >= 2

\* --------------------------------------- claims about the allocated blocks
\* The header addresses of the blocks of p whose header word is negative.
AllocBlockAddrs(p) == {b.addr : b \in {c \in SeqSet(Blocks(p)) : c.tag < 0}}

\* C26: after q = myrealloc(p, s2) returned non-null, the allocated blocks
\* are those of before the call with p's block replaced by q's (q may equal
\* p): p's old block is no longer an allocated block unless q = p, q's block
\* has a negative tag and a payload >= s2, the number of allocated blocks is
\* unchanged, and the driver's pointers are exactly the allocated blocks.
C26_ReallocReplacesBlock ==
  ReallocOk =>
    /\ last.ret - SizeofInt \in AllocBlockAddrs(pool)
    /\ -RdInt(pool, last.ret - SizeofInt) >= last.size
    /\ AllocBlockAddrs(pool) =
         (AllocBlockAddrs(prePool) \ {last.ptr - SizeofInt})
           \cup {last.ret - SizeofInt}
    /\ Cardinality(AllocBlockAddrs(pool)) = Cardinality(AllocBlockAddrs(prePool))
    /\ (last.ret # last.ptr => last.ptr - SizeofInt \notin AllocBlockAddrs(pool))
    /\ {b.ptr : b \in live} = ({b.ptr : b \in preLive} \ {last.ptr}) \cup {last.ret}
    /\ AllocBlockAddrs(pool) = {b.ptr - SizeofInt : b \in live}

\* A myrealloc that moved the allocation down into the block merged with a
\* free predecessor, another allocation being live.
C26_Witness ==
  /\ ReallocOk
  /\ last.ret < last.ptr /\ PrevWasFree(last.ptr)
  /\ Cardinality(live) >= 2
  /\ C26_ReallocReplacesBlock

\* The other cases of C26: the same address returned, and a block elsewhere.
C26_ReachedSameAddress == ReallocOk /\ last.ret = last.ptr /\ Cardinality(live) >= 2

C26_ReachedElsewhere == ReallocOk /\ last.ret > last.ptr /\ Cardinality(live) >= 2

\* The offsets from newptr of the bytes a successful myrealloc(oldptr, size)
\* stores in the new block: the int at offset 0, tempA and tempB behind it,
\* and offset i for every iteration of the byte loop.
ReallocWrites(nSpace, size) ==
  (0 .. (SizeofNode - SizeofInt - 1))
    \cup ((SizeofNode - SizeofInt) .. (Min(nSpace, size) - 1))

\* C27: no myalloc, myfree or myrealloc (returning a block or null) changes
\* a payload byte of a live allocated block other than the block the call
\* is made on: every store to a tag or a link lands in a tag or in the
\* payload of a block free at the time, and the copy of myrealloc stores
\* only inside the payload of the new block.
C27_OtherPayloadsUntouched ==
  /\ (last.op \in {"alloc", "free", "realloc"} /\ ~last.abort) =>
       \A c \in preLive :
         c.ptr # last.ptr =>
           \A i \in 0 .. (-RdInt(prePool, c.ptr - SizeofInt) - 1) :
             pool[c.ptr + i] = prePool[c.ptr + i]
  /\ ReallocOk =>
       \A i \in ReallocWrites(NewSpace, last.size) : i >= 0 /\ i < NewSpace

\* A myrealloc that returned a block lying between two other live blocks.
C27_Witness ==
  /\ ReallocOk
  /\ \E c, d \in preLive :
       /\ c.ptr < last.ret /\ last.ret < d.ptr
       /\ c.ptr # last.ptr /\ d.ptr # last.ptr
  /\ C27_OtherPayloadsUntouched

\* Other cases of C27: a myrealloc returning null, a myfree merging both
\* ways and a myalloc splitting a block, each with another block live.
C27_ReachedNull == ReallocNull /\ Cardinality(preLive) >= 2

C27_ReachedFree ==
  FreeOk /\ PrevWasFree(last.ptr) /\ NextWasFree(last.ptr) /\ live # {}

C27_ReachedAlloc == AllocOk /\ AllocSplit /\ preLive # {}

\* ------------------------------------------ claims about the pool's bounds
\* The addresses myfree(ptr) and myrealloc(ptr, ..) read when they inspect
\* the neighbours of ptr's block: the footer before the header unless the
\* header is at mem, the header behind the footer unless that is the end of
\* the pool.
NeighbourReads(ptr) ==
  LET dataptr == ptr - SizeofInt
      endptr == ptr - RdInt(prePool, dataptr) + SizeofInt
  IN  (IF dataptr # mem THEN (dataptr - SizeofInt) .. (dataptr - 1) ELSE {})
        \cup (IF endptr # PoolEnd THEN endptr .. (endptr + SizeofInt - 1) ELSE {})

\* C28: for calls with positive sizes and live pointers no myalloc, myfree
\* or myrealloc reads or writes an address outside [mem, mem + MEMORY_SIZE):
\* the neighbour inspections of myfree and myrealloc are skipped at the two
\* ends of the pool, and the copy of myrealloc, its reads from the old block
\* and its stores to the new one, stays inside the pool.
C28_AccessesInsidePool ==
  /\ (last.op \in {"free", "realloc"} /\ ~last.abort) =>
       NeighbourReads(last.ptr) \subseteq PoolAddrs
  /\ ReallocOk =>
       /\ \A i \in ReallocWrites(NewSpace, last.size) : last.ret + i \in PoolAddrs
       /\ \A i \in ReallocReads(NewSpace, last.size) : last.ptr + i \in PoolAddrs

\* What does hold of the accesses: the neighbour inspections and the stores
\* of the copy stay inside the pool, and the reads of the copy are at or
\* above mem and below oldptr + size.
C28_WritesInsidePool ==
  /\ (last.op \in {"free", "realloc"} /\ ~last.abort) =>
       NeighbourReads(last.ptr) \subseteq PoolAddrs
  /\ ReallocOk =>
       /\ \A i \in ReallocWrites(NewSpace, last.size) : last.ret + i \in PoolAddrs
       /\ \A i \in ReallocReads(NewSpace, last.size) :
            last.ptr + i >= mem /\ last.ptr + i < last.ptr + MAX(last.size, OldSpace)

\* ---------------------------------------------- claims about init_myalloc
\* C29: right after init_myalloc with pool size N the pool holds exactly one
\* block: free, header at offset 0 and footer at offset N - T both equal to
\* N - 2T; freeList is that block and its prev and next are null.
C29_InitialArena ==
  last.op = "init" =>
    /\ Blocks(pool) = WholeArenaFree
    /\ RdInt(pool, mem) = MEMORY_SIZE - 2 * SizeofInt
    /\ RdInt(pool, PoolEnd - SizeofInt) = MEMORY_SIZE - 2 * SizeofInt
    /\ freeList = mem
    /\ RdPtr(pool, mem + OffNext) = NULL
    /\ RdPtr(pool, mem + OffPrev) = NULL
    /\ live = {}

\* The state after init_myalloc on a pool malloc handed out with non-zero
\* bytes in it.
C29_Witness ==
  /\ last.op = "init" /\ nops = 0
  /\ \E a \in PoolAddrs : pool[a] \in JunkBytes \ {0}
  /\ C29_InitialArena

\* ------------------------------------------------ claims about termination
\* C30: every myalloc, myfree and myrealloc made in a reachable state
\* returns: the walk of findHead reaches null after visiting each free block
\* once, for the sizes the driver asks for and for one no block can hold,
\* and the left-to-right walk of checkMem reaches mem + MEMORY_SIZE exactly
\* and never steps past it.  (In the model a walk that would not end makes
\* the call abort.)
C30_WalksTerminate ==
  /\ ~last.abort
  /\ LET fs == FreeNodes(pool, freeList)
     IN  /\ WildPtr \notin SeqSet(fs)
         /\ Cardinality(SeqSet(fs)) = Len(fs)
         /\ SeqSet(fs) = FreeBlockAddrs(pool)
  /\ \A size \in Sizes \cup {MEMORY_SIZE + 1} : findHead(heap, size) # WildPtr
  /\ checkMem(heap) = MEMORY_SIZE
  /\ LET bs == Blocks(pool)
     IN  /\ \A i \in 1..Len(bs) : bs[i].ok
         /\ bs[Len(bs)].addr + Footprint(bs[Len(bs)]) = PoolEnd

\* A state reached by a myrealloc that returned null (myfree, a findHead
\* walk that found nothing, the rollback), with two nodes on the free list.
C30_Witness ==
  /\ ReallocNull
  /\ Len(FreeNodes(pool, freeList)) >= 2
  /\ Len(Blocks(pool)) >= 3
  /\ C30_WalksTerminate

\* ------------------------------------------------------------ close_myalloc
\* Number of calls the driver makes before close_myalloc at the latest.
CloseDepth == 4

\* What the bytes at mem .. mem + MEMORY_SIZE - 1 can hold once free(mem)
\* has returned: the host may leave them or overwrite them.
ReleasedPools == {pool} \cup {[a \in PoolAddrs |-> j] : j \in JunkBytes}

\* close_myalloc: free(mem), and nothing else; mem and freeList keep their
\* values.  The driver makes no call after it.
Close ==
  /\ last.op # "close" /\ ~last.abort
  /\ pool' \in ReleasedPools
  /\ freeList' = freeList
  /\ live' = live
  /\ last' = Call("close", NULL, 0, NULL, FALSE)
  /\ Snapshot

NextClose ==
  \/ last.op # "close" /\ nops < CloseDepth /\ Next
  \/ Close

SpecClose == Init /\ [][NextClose]_vars

\* C31: after close_myalloc the free-list head is null: the module state no
\* longer points into the released region.
C31_CloseNullsFreeList ==
  last.op = "close" => freeList = NULL

\* What does hold after close_myalloc: freeList has the value it had before
\* the call, which is null only when no block was free.
C31_CloseKeepsFreeList ==
  last.op = "close" =>
    /\ freeList = preFreeList
    /\ (freeList = NULL <=> FreeBlockAddrs(prePool) = {})

\* close_myalloc after every allocation was freed, as the test driver does.
C31_ReachedCloseAfterFrees ==
  /\ last.op = "close" /\ nops > 2
  /\ live = {}
  /\ freeList = mem

\* close_myalloc with the whole pool allocated, freeList null before it.
C31_ReachedCloseNoFreeBlock == last.op = "close" /\ freeList = NULL

============================================================================
